---- MODULE Spec2Model ----
(***************************************************************************)
(* dodoo-loader: src/src/loader.py.                                        *)
(*                                                                         *)
(* One run of main() is modelled as a sequence of steps (pc): the input    *)
(* loop over --file and --stream, load_metadata, seed_edges,               *)
(* order_to_parent (one node per step), chunk_dataframes, the opening of   *)
(* the log, and flush_all (the lazy topological generator, one store call  *)
(* and one log write per batch).  The log file `out` survives from one run *)
(* to the next.                                                            *)
(***************************************************************************)
EXTENDS Integers, Sequences, FiniteSets, TLC

VARIABLES
    file,       \* main(file=...): the --file inputs, in command-line order
    stream,     \* main(stream=...): the --stream inputs, in command-line order
    batch,      \* main(batch=...): the batch size
    out,        \* the content of the --out file, a sequence of tokens
    outpos,     \* the position of the file object `out` (in tokens)
    GRAPH,      \* the global DataSetGraph: nodes (in insertion order) and edges
    pc,         \* where main() is
    fi,         \* index of the input / node the current loop is at
    yielded,    \* nodes nx.topological_sort has yielded so far in flush_all
    chunk,      \* the key of the batch flush_all is at, within the current node
    res,        \* what load() returned for the batch flush_all is at
    error,      \* the exception that ended the run ("" when none)
    runs,       \* number of runs started
    out0,       \* history: the content of `out` when the run started
    rerun,      \* history: the run was given the input of the run before it
    ordered,    \* history: the nodes order_to_parent reindexed in this run
    submitted,  \* history: the store calls of this run, in order
    written     \* history: the entries this run wrote to `out`, in order

vars == << file, stream, batch, out, outpos, GRAPH, pc, fi, yielded, chunk,
           res, error, runs, out0, rerun, ordered, submitted, written >>

----------------------------------------------------------------------------
(* Bounds *)

MaxRuns == 2
MaxBatch == 2

----------------------------------------------------------------------------
(* Values *)

NULL == "null"          \* pandas NaN / None / a missing value

SUPPORTED_FORMATS == <<"csv", "json">>
SUPPORTED_FORMATS_EXCEL == <<"xlsx", "xls">>

Range(s) == {s[i] : i \in DOMAIN s}

Contains(s, x) == \E i \in DOMAIN s : s[i] = x

Last(s) == s[Len(s)]

\* All the orders in which the elements of S can be listed.
Perms(S) ==
    {p \in [1..Cardinality(S) -> S] : \A x \in S : \E i \in DOMAIN p : p[i] = x}

----------------------------------------------------------------------------
(* The odoo environment (external): the models it knows, each with its     *)
(* _parent_name, _description and relational fields.                       *)

ENV ==
    [m \in {"res.country", "res.country.state", "res.partner", "res.company",
            "product.category", "sale.order"} |->
        CASE m = "res.country" ->
               [parent |-> "parent_id", repr |-> "Country",
                relational |-> << >>]
          [] m = "res.country.state" ->
               [parent |-> "parent_id", repr |-> "Country state",
                relational |-> <<[name |-> "country_id", model |-> "res.country"]>>]
          [] m = "res.partner" ->
               [parent |-> "parent_id", repr |-> "Contact",
                relational |-> <<[name |-> "parent_id", model |-> "res.partner"],
                                 [name |-> "commercial_partner_id", model |-> "res.partner"],
                                 [name |-> "country_id", model |-> "res.country"],
                                 [name |-> "company_id", model |-> "res.company"]>>]
          [] m = "res.company" ->
               [parent |-> "parent_id", repr |-> "Companies",
                relational |-> <<[name |-> "parent_id", model |-> "res.company"],
                                 [name |-> "partner_id", model |-> "res.partner"]>>]
          [] m = "product.category" ->
               [parent |-> "parent_id", repr |-> "Product Category",
                relational |-> <<[name |-> "parent_id", model |-> "product.category"]>>]
          [] m = "sale.order" ->
               [parent |-> "parent_id", repr |-> "Sales Order",
                relational |-> <<[name |-> "partner_id", model |-> "res.partner"],
                                 [name |-> "partner_invoice_id", model |-> "res.partner"]>>]]

\* _infer_valid_model: the name itself when ENV knows it, else False.
InferValidModel(filename) ==
    IF filename \in DOMAIN ENV THEN filename ELSE "False"

\* odoo.models.fix_import_export_id_paths, on a column name given as its
\* tokens: "x.id" becomes "x/.id", "x:id" becomes "x/id", then split on "/".
FixImportExportIdPaths(col) ==
    LET fixed == [i \in DOMAIN col |->
                    IF col[i] = ":id" /\ i > 1 /\ col[i - 1] # "/"
                    THEN "id" ELSE col[i]]
    IN  SelectSeq(fixed, LAMBDA t : t # "/")

----------------------------------------------------------------------------
(* The --out file.  Its bytes are grouped in tokens: "[" (1 byte), the     *)
(* body of an entry up to its last newline, the entry's last 3 bytes       *)
(* "\n}," and the closing "{}]" (3 bytes).                                 *)

OpenTok == [tok |-> "["]
TailTok == [tok |-> "},"]
SentinelTok == [tok |-> "{}]"]

\* log_load_json: the bytes of one entry, keys sorted, followed by ",".
LogLoadJson(state, ids, extids, msgs, b, model) ==
    << [tok |-> "{", batch |-> b, candidates |-> extids, loaded |-> ids,
        model |-> model, state |-> state, x_msgs |-> msgs],
       TailTok >>

\* Whether json.loads accepts the bytes: "[" entry "," ... "{}" "]".
JsonValid(f) ==
    /\ Len(f) >= 2
    /\ Len(f) % 2 = 0
    /\ f[1] = OpenTok
    /\ f[Len(f)] = SentinelTok
    /\ \A i \in 2..(Len(f) - 1) :
          IF i % 2 = 0 THEN f[i].tok = "{" ELSE f[i] = TailTok

\* json.loads of valid bytes: the entries, then the empty object.
JsonLoads(f) == [j \in 1..(Len(f) \div 2) |-> f[2 * j]]

\* _log_retrieve_loaded_indices: the candidates of the entries of `model`
\* whose "loaded" is truthy, the last element of the array dropped.
LoadedFilterAnyModel(x, model) == x.loaded # << >>

LoadedFilter(x, model) == x.model = model /\ x.loaded # << >>

RECURSIVE Flatten(_)
Flatten(ss) == IF ss = << >> THEN << >> ELSE Head(ss) \o Flatten(Tail(ss))

LogRetrieveLoadedIndices(f, model) ==
    LET all == JsonLoads(f)
        data == SubSeq(all, 1, Len(all) - 1)
        kept == SelectSeq(data, LAMBDA x : LoadedFilter(x, model))
    IN  Flatten([i \in DOMAIN kept |-> kept[i].candidates])

----------------------------------------------------------------------------
(* The record store (external): env[model].load answers with the ids it    *)
(* wrote, none when the batch was rejected.                                *)

DbId(extid) == CASE extid = "a" -> 1 [] extid = "b" -> 2 [] extid = "c" -> 3
                 [] OTHER -> 4

StoreAnswers(candidates) ==
    { [ids |-> [i \in DOMAIN candidates |-> DbId(candidates[i])], messages |-> << >>],
      [ids |-> << >>, messages |-> <<"rejected">>] }

\* As LoadState, the written ids not looked at.
LoadStateAlwaysSuccess(ids) == "success"

\* load: "failure" when the store wrote no id, else "success".
LoadState(ids) == IF ids = << >> THEN "failure" ELSE "success"

Load(r) == [state |-> LoadState(r.ids), ids |-> r.ids, msgs |-> r.messages]

----------------------------------------------------------------------------
(* Inputs.  A DataFrame is its column names (each a sequence of tokens)    *)
(* and its rows; of a row the model keeps the identifier, the value of the *)
(* first column and the value of the parent column (NULL when the frame    *)
(* has none or the cell is empty).                                         *)

Row(id, parent) == [id |-> id, first |-> "v", parent |-> parent]

ColId == <<"id">>
ColDbId == <<".id">>
ColName == <<"name">>
ColParentExt == <<"parent_id", "/", "id">>

dfCountry ==
    [columns |-> <<ColId, ColName>>,
     rows |-> <<Row("a", NULL), Row("b", NULL)>>]

dfState ==
    [columns |-> <<ColId, ColName, <<"country_id", "/", "id">> >>,
     rows |-> <<Row("a", NULL), Row("c", NULL)>>]

\* The chain c -> b -> a, the rows listed in the order `ids`.
ChainParent(id) == CASE id = "c" -> "b" [] id = "b" -> "a" [] OTHER -> NULL

dfCategory(ids) ==
    [columns |-> <<ColId, ColParentExt>>,
     rows |-> [i \in DOMAIN ids |-> Row(ids[i], ChainParent(ids[i]))]]

dfCategoryCycle ==
    [columns |-> <<ColId, ColParentExt>>,
     rows |-> <<Row("a", "b"), Row("b", "a")>>]

dfCategorySelf ==
    [columns |-> <<ColId, ColParentExt>>,
     rows |-> <<Row("a", NULL), Row("b", "b")>>]

\* The index is the database id, the parent an external id.
dfCategoryMixed ==
    [columns |-> <<ColDbId, ColParentExt>>,
     rows |-> <<Row("b", "a"), Row("a", "b")>>]

\* The parent column written parent_id:id.
dfCategoryColon ==
    [columns |-> <<ColId, <<"parent_id", ":id">> >>,
     rows |-> <<Row("b", "a"), Row("a", NULL)>>]

\* A row without a value in its first column, and a parent that is no row.
dfCategoryOrphan ==
    [columns |-> <<ColId, ColParentExt>>,
     rows |-> <<Row("b", "a"), [id |-> "c", first |-> "", parent |-> NULL]>>]

dfPartner ==
    [columns |-> <<ColId, <<"company_id", "/", "id">> >>,
     rows |-> <<Row("a", NULL)>>]

\* A partner with a column for its commercial entity, a partner itself.
dfPartnerCommercial ==
    [columns |-> <<ColId, <<"commercial_partner_id", "/", "id">> >>,
     rows |-> <<Row("a", NULL)>>]

\* Two columns that reference the same model.
dfOrder ==
    [columns |-> <<ColId, <<"partner_id", "/", "id">>,
                   <<"partner_invoice_id", "/", "id">> >>,
     rows |-> <<Row("c", NULL)>>]

\* The parent column without an identifier convention.
dfCategoryNoTag ==
    [columns |-> <<ColId, <<"parent_id">> >>,
     rows |-> <<Row("b", "a"), Row("a", "b")>>]

dfCompany ==
    [columns |-> <<ColId, <<"partner_id", "/", "id">> >>,
     rows |-> <<Row("b", NULL)>>]

df2many ==
    [columns |-> <<ColId, <<"state_ids", "/", "name">> >>,
     rows |-> <<Row("a", NULL)>>]

dfNoIndex ==
    [columns |-> <<ColName>>,
     rows |-> <<Row("a", NULL)>>]

\* A --file: the basename without extension (lower case), the extension,
\* and what the readers make of the content: a frame, or for a workbook
\* its sheets.
File(name, type, df) ==
    [name |-> name, type |-> type, df |-> df, sheets |-> << >>]

ExcelFile(name, type, sheets) ==
    [name |-> name, type |-> type, df |-> dfNoIndex, sheets |-> sheets]

\* A --stream: (stream, type, model).
Stream(df, type, model) == [s |-> df, type |-> type, model |-> model]

fCountry == File("res.country", "json", dfCountry)
fState == File("res.country.state", "json", dfState)
fPartner == File("res.partner", "csv", dfPartner)
fCompany == File("res.company", "csv", dfCompany)

Invocations ==
    { [file |-> << >>, stream |-> << >>],
      [file |-> <<fState, fCountry>>, stream |-> << >>],
      [file |-> <<fCountry, fState>>, stream |-> << >>],
      [file |-> <<fCountry>>, stream |-> <<Stream(dfState, "csv", "res.country.state")>>],
      [file |-> << >>, stream |-> <<Stream(dfState, "json", "res.country.state"),
                                    Stream(dfCountry, "json", "res.country")>>],
      [file |-> <<File("product.category", "csv", dfCategoryCycle)>>, stream |-> << >>],
      [file |-> <<File("product.category", "csv", dfCategorySelf)>>, stream |-> << >>],
      [file |-> <<File("product.category", "csv", dfCategoryMixed)>>, stream |-> << >>],
      [file |-> <<File("product.category", "csv", dfCategoryColon)>>, stream |-> << >>],
      [file |-> <<File("product.category", "csv", dfCategoryOrphan)>>, stream |-> << >>],
      [file |-> <<fPartner, fCompany>>, stream |-> << >>],
      [file |-> <<fPartner, fCompany, fCountry>>, stream |-> << >>],
      [file |-> <<fCountry, fCompany>>, stream |-> <<Stream(dfPartner, "csv", "res.partner")>>],
      [file |-> <<File("res.country", "json", df2many)>>, stream |-> << >>],
      [file |-> <<File("res.country", "json", dfNoIndex)>>, stream |-> << >>],
      [file |-> <<fCountry, File("res.no.partner", "csv", dfPartner)>>, stream |-> << >>],
      [file |-> << >>, stream |-> <<Stream(dfPartner, "json", "res.no.partner")>>],
      [file |-> <<File("not_supported", "abc", dfCountry)>>, stream |-> << >>],
      [file |-> << >>, stream |-> <<Stream(dfPartner, "xls", "res.partner")>>],
      [file |-> <<ExcelFile("book", "xlsx",
                            <<[name |-> "res.country", df |-> dfCountry],
                              [name |-> "Sheet1", df |-> dfPartner],
                              [name |-> "res.country.state", df |-> dfState]>>)>>,
       stream |-> << >>],
      [file |-> <<ExcelFile("res.partner", "xls",
                            <<[name |-> "Sheet1", df |-> dfPartner]>>)>>,
       stream |-> << >>],
      [file |-> <<File("res.partner", "csv", dfPartnerCommercial)>>, stream |-> << >>],
      [file |-> <<File("sale.order", "csv", dfOrder), fPartner>>, stream |-> << >>],
      [file |-> <<File("product.category", "csv", dfCategoryNoTag)>>, stream |-> << >>],
      [file |-> <<File("product.category", "csv", dfCategory(<<"b", "a">>))>>,
       stream |-> <<Stream(dfCategory(<<"a">>), "csv", "product.category")>>] }
    \cup { [file |-> <<File("product.category", "csv", dfCategory(p))>>, stream |-> << >>] :
             p \in Perms({"a", "b", "c"}) }

\* What a later run may be given instead of the input of the run before it.
Followups ==
    { [file |-> << >>, stream |-> << >>],
      [file |-> <<fCountry, File("res.no.partner", "csv", dfPartner)>>, stream |-> << >>],
      [file |-> <<File("res.country", "json", df2many)>>, stream |-> << >>],
      [file |-> <<File("product.category", "csv", dfCategorySelf)>>, stream |-> << >>],
      [file |-> <<ExcelFile("res.partner", "xls",
                            <<[name |-> "Sheet1", df |-> dfPartner]>>)>>,
       stream |-> << >>],
      [file |-> <<fPartner, fCompany, fCountry>>, stream |-> << >>],
      [file |-> <<fState, fCountry>>, stream |-> << >>] }

----------------------------------------------------------------------------
(* _load_dataframes._load_into_graph                                       *)

\* Drop lines with empty or NaN first column.
DropEmpty(rows) == SelectSeq(rows, LAMBDA r : r.first # "" /\ r.first # NULL)

\* The index column: ".id" when there is one, else "id", else nothing.
IndexColumn(columns) ==
    IF Contains(columns, ColDbId) THEN ".id"
    ELSE IF Contains(columns, ColId) THEN "id"
    ELSE ""

\* df.set_index(idx): the index column is no column any more.
SetIndex(df, idx) ==
    [idx |-> idx,
     columns |-> SelectSeq(df.columns, LAMBDA c : c # <<idx>>),
     rows |-> df.rows]

\* `out and out.read(1)`: a byte is read unless the position is at the end.
ReadOne(f, pos) == pos < Len(f)

\* df[~df.index.isin(loaded)]
DropLoaded(df, loaded) ==
    [df EXCEPT !.rows = SelectSeq(df.rows, LAMBDA r : ~Contains(loaded, r.id))]

NoDf == [idx |-> "", columns |-> << >>, rows |-> << >>]

\* GRAPH.add_node(id(df), model=model, df=df)
NewNode(model, df) ==
    [model |-> model, df |-> df, cols |-> << >>, parent |-> "", repr |-> "",
     chunked_iterable |-> << >>]

\* The whole of _load_into_graph: the error it raises ("" when none), the
\* graph and the position of `out` afterwards.
LoadIntoGraph(g, f, pos, df, mod) ==
    LET idx == IndexColumn(df.columns)
        indexed == SetIndex([df EXCEPT !.rows = DropEmpty(df.rows)], idx)
        reads == ReadOne(f, pos)
    IN  IF idx = ""
        THEN [error |-> "UnboundLocalError", graph |-> g, pos |-> pos]
        ELSE IF ~reads
        THEN [error |-> "",
              graph |-> [g EXCEPT !.nodes = Append(@, NewNode(mod, indexed))],
              pos |-> pos]
        ELSE IF ~JsonValid(f)
        THEN [error |-> "JSONDecodeError", graph |-> g, pos |-> Len(f)]
        ELSE [error |-> "",
              graph |-> [g EXCEPT !.nodes = Append(@,
                            NewNode(mod, DropLoaded(indexed,
                                        LogRetrieveLoadedIndices(f, mod))))],
              pos |-> Len(f)]

\* _load_dataframes, the workbook case: every sheet named after a model is
\* loaded, the others are skipped.
RECURSIVE LoadSheets(_, _, _, _)
LoadSheets(g, f, pos, sheets) ==
    IF sheets = << >>
    THEN [error |-> "", graph |-> g, pos |-> pos]
    ELSE LET model == InferValidModel(Head(sheets).name)
         IN  IF model = "False"
             THEN LoadSheets(g, f, pos, Tail(sheets))
             ELSE LET r == LoadIntoGraph(g, f, pos, Head(sheets).df, model)
                  IN  IF r.error # "" THEN r
                      ELSE LoadSheets(r.graph, f, r.pos, Tail(sheets))

\* _load_dataframes(buf, input_type, model, out)
LoadDataframes(g, f, pos, buf, input_type, model) ==
    IF input_type = "xls"
    THEN LoadSheets(g, f, pos, buf.sheets)
    ELSE IF model = "False"
    THEN [error |-> "", graph |-> g, pos |-> pos]
    ELSE LoadIntoGraph(g, f, pos, buf.df, model)

----------------------------------------------------------------------------
(* DataSetGraph.  Nodes are numbered in insertion order (id(df) in the     *)
(* source); an edge <<u, v>> says u has a column that references v.        *)

Nodes(g) == DOMAIN g.nodes

\* load_metadata, one column: its name, subfield and, when the model has a
\* relational field of that name, the referenced model ("" when none).
RelModel(relational, name) ==
    IF \E i \in DOMAIN relational : relational[i].name = name
    THEN relational[CHOOSE i \in DOMAIN relational : relational[i].name = name].model
    ELSE ""

Subfield(fixed) == IF Len(fixed) = 2 THEN fixed[2] ELSE ""

NormalizeCol(col, relational) ==
    LET fixed == FixImportExportIdPaths(col)
    IN  [name |-> fixed[1], subfield |-> Subfield(fixed),
         model |-> RelModel(relational, fixed[1])]

\* The subfields load_metadata accepts.
SubfieldSupported(subfield) == subfield = "" \/ subfield \in {"id", ".id"}

\* load_metadata, one node.
NodeMetadata(data) ==
    LET klass == ENV[data.model]
    IN  [data EXCEPT
            !.cols = [i \in DOMAIN data.df.columns |->
                        NormalizeCol(data.df.columns[i], klass.relational)],
            !.parent = klass.parent,
            !.repr = klass.repr]

\* Whether load_metadata raises the UsageError on this node.
NodeUnsupported(data) ==
    \E i \in DOMAIN data.df.columns :
        ~SubfieldSupported(Subfield(FixImportExportIdPaths(data.df.columns[i])))

\* As EdgeColumn, the node's model not compared with the column's.
EdgeColumnAnyModel(col, data_u, model_v) ==
    col.model # "" /\ col.name # data_u.parent

\* seed_edges: the edge u -> v for a relational column of u, other than
\* u's parent column, whose model is v's.
EdgeColumn(col, data_u, model_v) ==
    col.model # "" /\ col.model = model_v /\ col.name # data_u.parent

SeedEdges(g) ==
    { <<u, v>> \in Nodes(g) \X Nodes(g) :
        \E i \in DOMAIN g.nodes[u].cols :
            EdgeColumn(g.nodes[u].cols[i], g.nodes[u], g.nodes[v].model) }

\* order_to_parent: the columns named as the parent field.
ParentCols(data) == SelectSeq(data.cols, LAMBDA col : col.name = data.parent)

\* As OrdersToParent, the convention of the parent column not looked at.
OrdersToParentAnyConvention(data) == ParentCols(data) # << >>

\* Whether order_to_parent reorders this node: it has a parent column and
\* that column's subfield is the index's name.
OrdersToParent(data) ==
    /\ ParentCols(data) # << >>
    /\ ParentCols(data)[1].subfield = data.df.idx

\* data["df"][parent]: the frame has a column spelled name/subfield.
ParentKey(data) ==
    <<ParentCols(data)[1].name, "/", ParentCols(data)[1].subfield>>

\* The row-level graph: its nodes are the index values and whatever the
\* edges name; an edge runs from a row to its non-null parent value.
RecordEdges(rows) ==
    { <<rows[i].id, rows[i].parent>> : i \in {j \in DOMAIN rows : rows[j].parent # NULL} }

RecordNodes(rows) ==
    {rows[i].id : i \in DOMAIN rows}
        \cup {e[1] : e \in RecordEdges(rows)} \cup {e[2] : e \in RecordEdges(rows)}

Pos(p, x) == CHOOSE i \in DOMAIN p : p[i] = x

\* As TopologicalSorts, the graph not reversed: each row before its parent.
TopologicalSortsForward(nodes, edges) ==
    {p \in Perms(nodes) : \A e \in edges : Pos(p, e[1]) < Pos(p, e[2])}

\* Every order nx.topological_sort may produce for the graph with the edges
\* reversed: each edge's target before its source.
TopologicalSorts(nodes, edges) ==
    {p \in Perms(nodes) : \A e \in edges : Pos(p, e[2]) < Pos(p, e[1])}

\* df.reindex(order): the rows in that order; an identifier that is no row
\* of the frame gets a row of missing values.
Reindex(rows, order) ==
    [i \in DOMAIN order |->
        IF \E j \in DOMAIN rows : rows[j].id = order[i]
        THEN rows[CHOOSE j \in DOMAIN rows : rows[j].id = order[i]]
        ELSE [id |-> order[i], first |-> NULL, parent |-> NULL]]

\* chunk_dataframes: groupby(np.arange(len(df)) // batch), the groups in
\* ascending key order, each with the rows of its key in frame order.
GroupKeyOneBased(i, n) == (i + 1) \div n

GroupKey(i, n) == i \div n

\* As SortedKeys, the keys in descending order.
RECURSIVE SortedKeysDescending(_)
SortedKeysDescending(S) ==
    IF S = {} THEN << >>
    ELSE LET m == CHOOSE x \in S : \A y \in S : x >= y
         IN  <<m>> \o SortedKeysDescending(S \ {m})

RECURSIVE SortedKeys(_)
SortedKeys(S) ==
    IF S = {} THEN << >>
    ELSE LET m == CHOOSE x \in S : \A y \in S : x <= y
         IN  <<m>> \o SortedKeys(S \ {m})

ChunkDataframe(rows, n) ==
    LET keys == SortedKeys({GroupKey(i - 1, n) : i \in DOMAIN rows})
        idxs(k) == {i \in DOMAIN rows : GroupKey(i - 1, n) = k}
    IN  [j \in DOMAIN keys |->
            [key |-> keys[j],
             df |-> [i \in 1..Cardinality(idxs(keys[j])) |->
                        rows[SortedKeys(idxs(keys[j]))[i]]]]]

ChunkNode(data, n) ==
    [data EXCEPT !.chunked_iterable = ChunkDataframe(data.df.rows, n),
                 !.df = NoDf]

\* As Ready, the graph not reversed: every node that references them first.
ReadyForward(g, done) ==
    {n \in Nodes(g) :
        /\ ~Contains(done, n)
        /\ \A e \in g.edges : e[2] = n => Contains(done, e[1])}

\* flush_all: the nodes nx.topological_sort(self.reverse(False)) can yield
\* next: not yielded yet, and every node they reference already yielded.
Ready(g, done) ==
    {n \in Nodes(g) :
        /\ ~Contains(done, n)
        /\ \A e \in g.edges : e[1] = n => Contains(done, e[2])}

----------------------------------------------------------------------------
(* The run *)

EmptyGraph == [nodes |-> << >>, edges |-> {}]

NoRes == [state |-> "", ids |-> << >>, msgs |-> << >>]

Init ==
    /\ \E inv \in Invocations : file = inv.file /\ stream = inv.stream
    /\ batch \in 1..MaxBatch
    /\ out = << >>
    /\ outpos = 0
    /\ GRAPH = EmptyGraph
    /\ pc = "idle"
    /\ fi = 0
    /\ yielded = << >>
    /\ chunk = 0
    /\ res = NoRes
    /\ error = ""
    /\ runs = 0
    /\ out0 = << >>
    /\ rerun = FALSE
    /\ ordered = {}
    /\ submitted = << >>
    /\ written = << >>

\* nx.NetworkXUnfeasible, by the call of nx.topological_sort that raises it.
RowCycle == "NetworkXUnfeasible in order_to_parent"
DatasetCycle == "NetworkXUnfeasible in flush_all"

\* An exception leaves main(); click closes `out`.
Raise(e) ==
    /\ pc' = "aborted"
    /\ error' = e

\* out.write(toks) on a file opened for appending: the position is not
\* looked at, the bytes go to the end.
WriteAppend(f, pos, toks) == f \o toks

\* out.write(toks) at position pos of a file opened r+b: every write of
\* main() covers the bytes that follow the position.
Write(f, pos, toks) == SubSeq(f, 1, pos) \o toks

\* --out opened "w+b": the file is emptied.
OpenOutTruncating(f) == << >>

\* --out is a click.File("r+b"): opening it leaves its content as it is.
OpenOut(f) == f

\* main(), entry: fresh globals, and the check that some input is given.
Main ==
    /\ pc \in {"idle", "done", "aborted"}
    /\ runs < MaxRuns
    /\ runs' = runs + 1
    /\ GRAPH' = EmptyGraph
    /\ outpos' = 0
    /\ out0' = out
    /\ ordered' = {}
    /\ submitted' = << >>
    /\ written' = << >>
    /\ yielded' = << >>
    /\ chunk' = 0
    /\ res' = NoRes
    /\ fi' = 1
    /\ \E inv \in {[file |-> file, stream |-> stream]}
                        \cup (IF runs = 0 THEN {} ELSE Followups) :
          /\ file' = inv.file
          /\ stream' = inv.stream
          /\ rerun' = (runs > 0 /\ inv.file = file /\ inv.stream = stream)
          /\ IF inv.file = << >> /\ inv.stream = << >>
             THEN Raise("BadParameter")
             ELSE pc' = "file" /\ error' = ""
    /\ out' = OpenOut(out)
    /\ UNCHANGED batch

\* The check left out.
NoValidModelUnchecked(excel, model) == FALSE

\* `if not excel and not model`: the file name must encode a model, unless
\* the file is a workbook.
NoValidModel(excel, model) == ~excel /\ model = "False"

\* main(), one turn of `for f in file`.
LoadFile ==
    /\ pc = "file"
    /\ IF fi > Len(file)
       THEN /\ pc' = "stream"
            /\ fi' = 1
            /\ UNCHANGED << GRAPH, outpos, error >>
       ELSE LET f == file[fi]
                type_ == IF f.type = "xlsx" THEN "xls" ELSE f.type
                excel == type_ = "xls"
                model == InferValidModel(f.name)
                r == LoadDataframes(GRAPH, out, outpos, f, type_, model)
            IN  IF ~Contains(SUPPORTED_FORMATS \o SUPPORTED_FORMATS_EXCEL, f.type)
                THEN Raise("BadParameter") /\ UNCHANGED << GRAPH, outpos, fi >>
                ELSE IF NoValidModel(excel, model)
                THEN Raise("BadParameter") /\ UNCHANGED << GRAPH, outpos, fi >>
                ELSE IF r.error # ""
                THEN Raise(r.error) /\ outpos' = r.pos /\ UNCHANGED << GRAPH, fi >>
                ELSE /\ GRAPH' = r.graph
                     /\ outpos' = r.pos
                     /\ fi' = fi + 1
                     /\ UNCHANGED << pc, error >>
    /\ UNCHANGED << file, stream, batch, out, yielded, chunk, res, runs, out0,
                    rerun, ordered, submitted, written >>

\* main(), one turn of `for (s, type_, model) in stream`.
LoadStream ==
    /\ pc = "stream"
    /\ IF fi > Len(stream)
       THEN /\ pc' = "load_metadata"
            /\ UNCHANGED << GRAPH, outpos, error, fi >>
       ELSE LET s == stream[fi]
                model == InferValidModel(s.model)
                r == LoadDataframes(GRAPH, out, outpos, [df |-> s.s], s.type, model)
            IN  IF ~Contains(SUPPORTED_FORMATS, s.type)
                THEN Raise("BadParameter") /\ UNCHANGED << GRAPH, outpos, fi >>
                ELSE IF model = "False"
                THEN Raise("BadParameter") /\ UNCHANGED << GRAPH, outpos, fi >>
                ELSE IF r.error # ""
                THEN Raise(r.error) /\ outpos' = r.pos /\ UNCHANGED << GRAPH, fi >>
                ELSE /\ GRAPH' = r.graph
                     /\ outpos' = r.pos
                     /\ fi' = fi + 1
                     /\ UNCHANGED << pc, error >>
    /\ UNCHANGED << file, stream, batch, out, yielded, chunk, res, runs, out0,
                    rerun, ordered, submitted, written >>

\* GRAPH.load_metadata()
LoadMetadata ==
    /\ pc = "load_metadata"
    /\ IF \E n \in Nodes(GRAPH) : NodeUnsupported(GRAPH.nodes[n])
       THEN Raise("UsageError") /\ UNCHANGED GRAPH
       ELSE /\ GRAPH' = [GRAPH EXCEPT !.nodes =
                            [n \in Nodes(GRAPH) |-> NodeMetadata(GRAPH.nodes[n])]]
            /\ pc' = "seed_edges"
            /\ UNCHANGED error
    /\ UNCHANGED << file, stream, batch, out, outpos, fi, yielded, chunk, res,
                    runs, out0, rerun, ordered, submitted, written >>

\* GRAPH.seed_edges()
DoSeedEdges ==
    /\ pc = "seed_edges"
    /\ GRAPH' = [GRAPH EXCEPT !.edges = SeedEdges(GRAPH)]
    /\ pc' = "order_to_parent"
    /\ fi' = 1
    /\ UNCHANGED << file, stream, batch, out, outpos, yielded, chunk, res, error,
                    runs, out0, rerun, ordered, submitted, written >>

\* GRAPH.order_to_parent(), one turn of its loop over the nodes.
OrderToParent ==
    /\ pc = "order_to_parent"
    /\ IF fi > Len(GRAPH.nodes)
       THEN /\ pc' = "chunk_dataframes"
            /\ UNCHANGED << GRAPH, fi, error, ordered >>
       ELSE LET data == GRAPH.nodes[fi]
                rows == data.df.rows
            IN  IF ~OrdersToParent(data)
                THEN /\ fi' = fi + 1
                     /\ UNCHANGED << GRAPH, pc, error, ordered >>
                ELSE IF ~Contains(data.df.columns, ParentKey(data))
                THEN Raise("KeyError") /\ UNCHANGED << GRAPH, fi, ordered >>
                ELSE IF TopologicalSorts(RecordNodes(rows), RecordEdges(rows)) = {}
                THEN Raise(RowCycle) /\ UNCHANGED << GRAPH, fi, ordered >>
                ELSE /\ \E order \in TopologicalSorts(RecordNodes(rows), RecordEdges(rows)) :
                           GRAPH' = [GRAPH EXCEPT !.nodes[fi].df.rows = Reindex(rows, order)]
                     /\ ordered' = ordered \cup {fi}
                     /\ fi' = fi + 1
                     /\ UNCHANGED << pc, error >>
    /\ UNCHANGED << file, stream, batch, out, outpos, yielded, chunk, res, runs,
                    out0, rerun, submitted, written >>

\* GRAPH.chunk_dataframes(batch)
ChunkDataframes ==
    /\ pc = "chunk_dataframes"
    /\ GRAPH' = [GRAPH EXCEPT !.nodes =
                    [n \in Nodes(GRAPH) |-> ChunkNode(GRAPH.nodes[n], batch)]]
    /\ pc' = "open_log"
    /\ UNCHANGED << file, stream, batch, out, outpos, fi, yielded, chunk, res,
                    error, runs, out0, rerun, ordered, submitted, written >>

\* main(): out.seek(0), then "[" into an empty file, else out.seek(-3, 2),
\* which fails on a file shorter than 3 bytes.
OpenLog ==
    /\ pc = "open_log"
    /\ IF ~ReadOne(out, 0)
       THEN /\ out' = Write(out, 0, <<OpenTok>>)
            /\ outpos' = 1
            /\ pc' = "flush"
            /\ UNCHANGED error
       ELSE IF Len(out) = 1
       THEN Raise("OSError") /\ outpos' = 1 /\ UNCHANGED out
       ELSE /\ outpos' = Len(out) - 1
            /\ pc' = "flush"
            /\ UNCHANGED << out, error >>
    /\ UNCHANGED << file, stream, batch, GRAPH, fi, yielded, chunk, res, runs,
                    out0, rerun, ordered, submitted, written >>

\* flush_all: the generator is asked for the next node; when it is
\* exhausted main() writes the closing "{}]".
FlushNext ==
    /\ pc = "flush"
    /\ IF Ready(GRAPH, yielded) # {}
       THEN /\ \E n \in Ready(GRAPH, yielded) : yielded' = Append(yielded, n)
            /\ chunk' = 1
            /\ pc' = "batch"
            /\ UNCHANGED << out, outpos, error >>
       ELSE IF Len(yielded) < Len(GRAPH.nodes)
       THEN Raise(DatasetCycle) /\ UNCHANGED << out, outpos, yielded, chunk >>
       ELSE /\ out' = Write(out, outpos, <<SentinelTok>>)
            /\ outpos' = Len(out')
            /\ pc' = "done"
            /\ UNCHANGED << yielded, chunk, error >>
    /\ UNCHANGED << file, stream, batch, GRAPH, fi, res, runs, out0, rerun,
                    ordered, submitted, written >>

Candidates(df) == [i \in DOMAIN df |-> df[i].id]

\* flush_all, one turn of the loop over the node's chunks: load().
LoadBatch ==
    /\ pc = "batch"
    /\ LET data == GRAPH.nodes[Last(yielded)]
       IN  IF chunk > Len(data.chunked_iterable)
           THEN /\ pc' = "flush"
                /\ UNCHANGED << res, submitted >>
           ELSE LET c == data.chunked_iterable[chunk]
                IN  /\ \E r \in StoreAnswers(Candidates(c.df)) : res' = Load(r)
                    /\ submitted' = Append(submitted,
                            [node |-> Last(yielded), model |-> data.model,
                             batch |-> c.key, candidates |-> Candidates(c.df)])
                    /\ pc' = "log"
    /\ UNCHANGED << file, stream, batch, out, outpos, GRAPH, fi, yielded, chunk,
                    error, runs, out0, rerun, ordered, written >>

\* flush_all called without its log_stream argument.
LogStreamNone == FALSE

\* `if log_stream:` -- the open file object is truthy.
LogStream == TRUE

\* flush_all: log_stream.write(log_load_json(...)).
LogBatch ==
    /\ pc = "log"
    /\ LET data == GRAPH.nodes[Last(yielded)]
           c == data.chunked_iterable[chunk]
           entry == LogLoadJson(res.state, res.ids, Candidates(c.df), res.msgs,
                                c.key, data.model)
       IN  IF LogStream
           THEN /\ out' = Write(out, outpos, entry)
                /\ outpos' = Len(out')
                /\ written' = Append(written, entry[1])
           ELSE UNCHANGED << out, outpos, written >>
    /\ chunk' = chunk + 1
    /\ pc' = "batch"
    /\ UNCHANGED << file, stream, batch, GRAPH, fi, yielded, res, error, runs,
                    out0, rerun, ordered, submitted >>

Next ==
    \/ Main
    \/ LoadFile
    \/ LoadStream
    \/ LoadMetadata
    \/ DoSeedEdges
    \/ OrderToParent
    \/ ChunkDataframes
    \/ OpenLog
    \/ FlushNext
    \/ LoadBatch
    \/ LogBatch

Spec == Init /\ [][Next]_vars

\* The steps of a run under way: main() is sequential code without waits, so
\* a run once started takes its next step until it returns or raises; when
\* a run is started is up to the caller.
RunStep ==
    \/ LoadFile
    \/ LoadStream
    \/ LoadMetadata
    \/ DoSeedEdges
    \/ OrderToParent
    \/ ChunkDataframes
    \/ OpenLog
    \/ FlushNext
    \/ LoadBatch
    \/ LogBatch

LiveSpec == Spec /\ WF_vars(RunStep)

----------------------------------------------------------------------------
(* What the properties speak of *)

\* The run is over (or none has started).
Ended == pc \in {"idle", "done", "aborted"}

\* main() has left the input loops.
PastInputs ==
    pc \in {"load_metadata", "seed_edges", "order_to_parent", "chunk_dataframes",
            "open_log", "flush", "batch", "log", "done"}

\* chunk_dataframes has run.
Chunked == pc \in {"open_log", "flush", "batch", "log", "done"}

IsExcel(f) == f.type \in {"xls", "xlsx"}

\* The datasets the run's input holds for models the environment knows.
Datasets ==
    {[model |-> file[i].name, df |-> file[i].df] :
        i \in {j \in DOMAIN file : ~IsExcel(file[j]) /\ file[j].name \in DOMAIN ENV}}
    \cup UNION {{[model |-> file[i].sheets[k].name, df |-> file[i].sheets[k].df] :
                    k \in {l \in DOMAIN file[i].sheets :
                              file[i].sheets[l].name \in DOMAIN ENV}} :
                i \in {j \in DOMAIN file : IsExcel(file[j])}}
    \cup {[model |-> stream[i].model, df |-> stream[i].s] :
             i \in {j \in DOMAIN stream : stream[j].model \in DOMAIN ENV}}

\* The identifiers of the input's rows for a model (rows with an empty first
\* column are no rows).
InputRowIds(m) ==
    UNION {{d.df.rows[i].id :
               i \in {j \in DOMAIN d.df.rows :
                         d.df.rows[j].first # "" /\ d.df.rows[j].first # NULL}} :
           d \in {x \in Datasets : x.model = m}}

\* The entries of a log in a given state, for a model.
Entries(f, m, state) ==
    {f[i] : i \in {j \in DOMAIN f : /\ f[j].tok = "{"
                                     /\ f[j].model = m
                                     /\ f[j].state = state}}

AnyEntries(f, state) ==
    {f[i] : i \in {j \in DOMAIN f : f[j].tok = "{" /\ f[j].state = state}}

SuccessCandidates(f, m) == UNION {Range(e.candidates) : e \in Entries(f, m, "success")}

\* The batches of node n the store has been called with.
SubmittedKeys(n) ==
    {submitted[i].batch : i \in {j \in DOMAIN submitted : submitted[j].node = n}}

ChunkKeys(n) ==
    {GRAPH.nodes[n].chunked_iterable[k].key : k \in DOMAIN GRAPH.nodes[n].chunked_iterable}

\* The reference graph has a cycle: some node reaches itself.
RECURSIVE ReachFrom(_, _)
ReachFrom(S, edges) ==
    LET T == S \cup {e[2] : e \in {x \in edges : x[1] \in S}}
    IN  IF T = S THEN S ELSE ReachFrom(T, edges)

HasCycle(g) ==
    \E n \in Nodes(g) : n \in ReachFrom({e[2] : e \in {x \in g.edges : x[1] = n}}, g.edges)

----------------------------------------------------------------------------
(* C1 *)

\* C1 -- Topological validity: for every edge A -> B of the reference
\* graph, every store call for a batch of B comes before every store call
\* for a batch of A, and when a batch of A is submitted all the batches of
\* B have been; a run that completes has submitted every batch of both.
C1_TopologicalValidity ==
    /\ \A i \in DOMAIN submitted : \A j \in DOMAIN submitted :
          <<submitted[i].node, submitted[j].node>> \in GRAPH.edges => j < i
    /\ \A i \in DOMAIN submitted : \A v \in Nodes(GRAPH) :
          <<submitted[i].node, v>> \in GRAPH.edges =>
              \A k \in ChunkKeys(v) :
                  \E j \in 1..(i - 1) : submitted[j].node = v /\ submitted[j].batch = k
    /\ pc = "done" => \A n \in Nodes(GRAPH) : SubmittedKeys(n) = ChunkKeys(n)

\* The state file comes first on the command line and is submitted last.
C1_Witness ==
    /\ pc = "done"
    /\ <<1, 2>> \in GRAPH.edges
    /\ Len(submitted) = 4
    /\ submitted[1].node = 2 /\ submitted[2].node = 2
    /\ submitted[3].node = 1 /\ submitted[4].node = 1

----------------------------------------------------------------------------
(* C2 *)

\* C2 -- Idempotent rerun: in a run given the input of the run before it,
\* a model all of whose input rows are candidates of success entries of
\* the log gets no store call and no new success entry.
C2_IdempotentRerun ==
    rerun =>
        \A m \in {d.model : d \in Datasets} :
            InputRowIds(m) \subseteq SuccessCandidates(out0, m) =>
                /\ \A i \in DOMAIN submitted : submitted[i].model # m
                /\ \A i \in DOMAIN written :
                      written[i].model = m => written[i].state # "success"

----------------------------------------------------------------------------
(* C3 *)

\* The row of node n with identifier id, among its chunks.
ChunkOfRow(n, id) ==
    CHOOSE k \in DOMAIN GRAPH.nodes[n].chunked_iterable :
        \E i \in DOMAIN GRAPH.nodes[n].chunked_iterable[k].df :
            GRAPH.nodes[n].chunked_iterable[k].df[i].id = id

RowsAfterParents(rows) ==
    \A i \in DOMAIN rows : \A j \in DOMAIN rows :
        (rows[i].parent # NULL /\ rows[i].parent = rows[j].id) => j < i

\* C3 -- Hierarchy ordering: in a dataset order_to_parent has reindexed
\* (parent column of the index's convention, acyclic rows), every row
\* whose parent is a row of the dataset stands after it in the buffer, its
\* batch number is not below the parent's, the parent's batch is submitted
\* no later than the row's, and the chain c -> b -> a comes out as a, b, c.
C3_HierarchyOrdering ==
    \A n \in ordered :
        /\ pc \in {"order_to_parent", "chunk_dataframes"} =>
              /\ RowsAfterParents(GRAPH.nodes[n].df.rows)
              /\ ( /\ Len(GRAPH.nodes[n].df.rows) = 3
                   /\ \A i \in 1..3 : GRAPH.nodes[n].df.rows[i].parent
                                        = ChainParent(GRAPH.nodes[n].df.rows[i].id) )
                 => Candidates(GRAPH.nodes[n].df.rows) = <<"a", "b", "c">>
        /\ Chunked =>
              LET chunks == GRAPH.nodes[n].chunked_iterable
                  rows == Flatten([k \in DOMAIN chunks |-> chunks[k].df])
              IN  /\ RowsAfterParents(rows)
                  /\ \A i \in DOMAIN rows : \A j \in DOMAIN rows :
                        rows[i].parent = rows[j].id =>
                            /\ chunks[ChunkOfRow(n, rows[j].id)].key
                                  <= chunks[ChunkOfRow(n, rows[i].id)].key
                            /\ \A s \in DOMAIN submitted :
                                  ( /\ submitted[s].node = n
                                    /\ Contains(submitted[s].candidates, rows[i].id) )
                                  => \E t \in 1..s :
                                        /\ submitted[t].node = n
                                        /\ Contains(submitted[t].candidates, rows[j].id)

\* The chain given as c, b, a and submitted one row a batch as a, b, c.
C3_Witness ==
    /\ pc = "done"
    /\ 1 \in ordered
    /\ ~rerun
    /\ file = <<File("product.category", "csv", dfCategory(<<"c", "b", "a">>))>>
    /\ batch = 1
    /\ Len(submitted) = 3
    /\ submitted[1].candidates = <<"a">>
    /\ submitted[2].candidates = <<"b">>
    /\ submitted[3].candidates = <<"c">>

----------------------------------------------------------------------------
(* C4 *)

\* C4 -- Cycle detection: when the reference graph has a cycle the run
\* does not complete and no batch of any dataset is submitted.
C4_CycleAbortsBeforeWrites ==
    HasCycle(GRAPH) => (submitted = << >> /\ pc # "done")

----------------------------------------------------------------------------
(* C5 *)

\* C5 -- Log validity between runs: when no run is under way the log is
\* empty or a valid JSON array whose last element is the empty object.
C5_LogValidBetweenRuns ==
    Ended => (out = << >> \/ JsonValid(out))

----------------------------------------------------------------------------
(* C6 *)

\* C6 -- Batch partition: chunk_dataframes turns a buffer of R rows into
\* ceil(R / batch) chunks keyed 0, 1, ..., all but the last of `batch`
\* rows, the last of 1..batch rows, whose concatenation is the buffer.
C6_BatchPartition ==
    [][pc = "chunk_dataframes" =>
        \A n \in Nodes(GRAPH) :
            LET rows == GRAPH.nodes[n].df.rows
                chunks == GRAPH'.nodes[n].chunked_iterable
            IN  /\ Len(chunks) = (Len(rows) + batch - 1) \div batch
                /\ \A j \in DOMAIN chunks : chunks[j].key = j - 1
                /\ \A j \in DOMAIN chunks : j < Len(chunks) => Len(chunks[j].df) = batch
                /\ chunks # << >> => Len(Last(chunks).df) \in 1..batch
                /\ Flatten([j \in DOMAIN chunks |-> chunks[j].df]) = rows]_vars

\* Three rows in batches of two: a full chunk and a last one of one row.
C6_Witness ==
    /\ pc = "open_log"
    /\ batch = 2
    /\ \E n \in Nodes(GRAPH) :
          /\ Len(GRAPH.nodes[n].chunked_iterable) = 2
          /\ Len(GRAPH.nodes[n].chunked_iterable[1].df) = 2
          /\ Len(GRAPH.nodes[n].chunked_iterable[2].df) = 1

----------------------------------------------------------------------------
(* C7 *)

LogEntries(f) == SelectSeq(f, LAMBDA t : t.tok = "{")

\* C7 -- Batch failure is non-fatal and recorded: whenever the store is
\* about to be called, and when the run has ended, every earlier store
\* call of the run has its entry (failure exactly when no id was written)
\* at the end of the log; whatever the outcomes, every node the execution
\* order has passed has all its batches submitted, a run that completes
\* has passed every node, and a run that ends after a store call without
\* completing does so only when no node is left that the order can yield.
C7_FailureNonFatal ==
    /\ Len(written) = IF pc = "log" THEN Len(submitted) - 1 ELSE Len(submitted)
    /\ \A i \in DOMAIN written :
          /\ written[i].model = submitted[i].model
          /\ written[i].batch = submitted[i].batch
          /\ written[i].candidates = submitted[i].candidates
          /\ written[i].state = (IF written[i].loaded = << >> THEN "failure" ELSE "success")
    /\ LET es == LogEntries(out)
       IN  /\ Len(es) >= Len(written)
           /\ SubSeq(es, Len(es) - Len(written) + 1, Len(es)) = written
    /\ \A k \in DOMAIN yielded :
          (k < Len(yielded) \/ pc \in {"flush", "done", "aborted"})
              => SubmittedKeys(yielded[k]) = ChunkKeys(yielded[k])
    /\ pc = "done" => Range(yielded) = Nodes(GRAPH)
    /\ (pc = "aborted" /\ submitted # << >>) =>
          (error = DatasetCycle /\ Ready(GRAPH, yielded) = {})

\* A completed run whose log shows a failure followed by the entry of a
\* batch of another dataset.
C7_Witness ==
    /\ pc = "done"
    /\ \E i \in 1..(Len(written) - 1) :
          /\ written[i].state = "failure"
          /\ written[i + 1].model # written[i].model
          /\ written[i + 1].state = "success"

----------------------------------------------------------------------------
(* C8 *)

\* C8 -- Configuration errors abort before execution: a run ended by a
\* BadParameter (no input, unknown model, unsupported format), by the
\* UsageError for a subfield or by a cycle among a dataset's rows has
\* called the store for no batch and left the log as it found it.
C8_ConfigErrorsAbortBeforeExecution ==
    (pc = "aborted" /\ error \in {"BadParameter", "UsageError", RowCycle})
        => (submitted = << >> /\ out = out0)

\* A row that is its own parent ends a run that found a log with entries.
C8_Witness ==
    /\ pc = "aborted"
    /\ error = RowCycle
    /\ LogEntries(out) # << >>
    /\ out = out0

----------------------------------------------------------------------------
(* C9 *)

UnknownFiles == {i \in DOMAIN file : ~IsExcel(file[i]) /\ file[i].name \notin DOMAIN ENV}

UnknownStreams == {i \in DOMAIN stream : stream[i].model \notin DOMAIN ENV}

UnknownSheets ==
    UNION {{<<i, k>> : k \in {l \in DOMAIN file[i].sheets :
                                  file[i].sheets[l].name \notin DOMAIN ENV}} :
           i \in {j \in DOMAIN file : IsExcel(file[j])}}

KnownSheets ==
    UNION {{<<i, k>> : k \in {l \in DOMAIN file[i].sheets :
                                  file[i].sheets[l].name \in DOMAIN ENV}} :
           i \in {j \in DOMAIN file : IsExcel(file[j])}}

\* C9 as stated -- Unknown model is fatal: no run gets past its inputs
\* with a file, a stream or a workbook sheet whose model is not known.
C9_UnknownModelFatal_Original ==
    PastInputs => (UnknownFiles = {} /\ UnknownStreams = {} /\ UnknownSheets = {})

\* C9 as amended -- no run gets past its inputs with a delimited/JSON file
\* or a stream whose model is not known; a workbook sheet whose name is no
\* known model is skipped: past the inputs the graph holds one node for
\* each file, each stream and each sheet named after a known model.
C9_UnknownModelFatal ==
    PastInputs =>
        /\ UnknownFiles = {}
        /\ UnknownStreams = {}
        /\ Len(GRAPH.nodes) = Cardinality({i \in DOMAIN file : ~IsExcel(file[i])})
                              + Cardinality(KnownSheets) + Len(stream)

\* The second file names no model: the run ends there, one dataset loaded.
C9_Witness ==
    /\ pc = "aborted"
    /\ error = "BadParameter"
    /\ Len(file) = 2
    /\ fi = 2
    /\ 2 \in UnknownFiles
    /\ Len(GRAPH.nodes) = 1
    /\ submitted = << >>

----------------------------------------------------------------------------
(* C10 *)

Candidates_(es) == UNION {Range(e.candidates) : e \in es}

\* C10 -- Recovery by rerun: in a run given the input of the run before
\* it, no input row whose identifier is a candidate of a success entry for
\* its model is submitted, and when the run completes every input row whose
\* identifier the log holds in failure entries only has been submitted.
C10_RecoveryByRerun ==
    rerun =>
        /\ \A i \in DOMAIN submitted :
              Range(submitted[i].candidates)
                  \cap InputRowIds(submitted[i].model)
                  \cap SuccessCandidates(out0, submitted[i].model) = {}
        /\ pc = "done" =>
              \A m \in {d.model : d \in Datasets} : \A id \in InputRowIds(m) :
                  ( /\ id \in Candidates_(AnyEntries(out0, "failure"))
                    /\ id \notin Candidates_(AnyEntries(out0, "success")) )
                  => \E i \in DOMAIN submitted :
                        /\ submitted[i].model = m
                        /\ Contains(submitted[i].candidates, id)

----------------------------------------------------------------------------
(* C11 *)

\* C11 -- No dataset-level self-edge: once seed_edges has run no node of
\* the reference graph has an edge to itself, whatever relational columns
\* the dataset carries, and no run of a single dataset is ended by the
\* topological sort of the datasets.
C11_NoSelfEdge ==
    /\ \A n \in Nodes(GRAPH) : <<n, n>> \notin GRAPH.edges
    /\ (Len(GRAPH.nodes) = 1 /\ pc = "aborted") => error # DatasetCycle

----------------------------------------------------------------------------
(* C12 *)

RowIds(rows) == {rows[i].id : i \in DOMAIN rows}

\* C12 -- Hierarchy ordering is a permutation of the surviving rows: a turn
\* of order_to_parent that does not abort leaves the node's buffer with the
\* same number of rows and the same set of row identifiers, also when a
\* row's parent is no row of the buffer.
C12_OrderingIsPermutation ==
    [][(pc = "order_to_parent" /\ fi <= Len(GRAPH.nodes) /\ pc' # "aborted") =>
          /\ Len(GRAPH'.nodes[fi].df.rows) = Len(GRAPH.nodes[fi].df.rows)
          /\ RowIds(GRAPH'.nodes[fi].df.rows) = RowIds(GRAPH.nodes[fi].df.rows)]_vars

----------------------------------------------------------------------------
(* C13 *)

\* C13 -- Append-only log: in a run that found the log empty or as a
\* completed run leaves it, the entries of the log are at every moment the
\* entries it held before the run, unmodified and in their order, followed
\* by the entries the run has written; these are one per store call, in
\* the order of the calls, each with the call's model, batch number and
\* candidates and the state, identifiers and messages the store answered;
\* the completed run leaves a valid array, and one that submitted no batch
\* leaves the entries, and a log that was not empty as a whole, unchanged.
C13_AppendOnlyLog ==
    (out0 = << >> \/ JsonValid(out0)) =>
        /\ LogEntries(out) = LogEntries(out0) \o written
        /\ Len(written) \in {Len(submitted), Len(submitted) - 1}
        /\ pc \in {"flush", "batch", "done"} => Len(written) = Len(submitted)
        /\ \A i \in DOMAIN written :
              /\ written[i].model = submitted[i].model
              /\ written[i].batch = submitted[i].batch
              /\ written[i].candidates = submitted[i].candidates
        /\ (written # << >> /\ pc # "log") =>
              /\ Last(written).state = res.state
              /\ Last(written).loaded = res.ids
              /\ Last(written).x_msgs = res.msgs
        /\ pc = "done" =>
              /\ JsonValid(out)
              /\ (submitted = << >> /\ out0 # << >>) => out = out0

\* A second completed run has added two entries to the two it found.
C13_Witness ==
    /\ pc = "done"
    /\ runs = 2
    /\ Len(LogEntries(out0)) = 2
    /\ Len(written) = 2
    /\ Len(LogEntries(out)) = 4
    /\ written[1].state = "failure"

----------------------------------------------------------------------------
(* C14 *)

\* C14 -- Strictly sequential execution: among the store calls of a run
\* those of one dataset stand next to each other, the first of them for
\* batch 0 and each further one for the batch number after the one before
\* it; and whenever a call has been made the result the run holds is the
\* store's answer to the latest call, so the next one comes after it.
C14_StrictlySequential ==
    /\ \A i \in DOMAIN submitted : \A j \in DOMAIN submitted :
          (i < j /\ submitted[i].node = submitted[j].node) =>
              \A k \in i..j : submitted[k].node = submitted[i].node
    /\ \A i \in DOMAIN submitted :
          submitted[i].batch =
              IF i > 1 /\ submitted[i - 1].node = submitted[i].node
              THEN submitted[i - 1].batch + 1
              ELSE 0
    /\ submitted # << >> =>
          res \in {Load(r) : r \in StoreAnswers(Last(submitted).candidates)}

\* Two datasets of two batches each, the one after the other.
C14_Witness ==
    /\ pc = "done"
    /\ Len(submitted) = 4
    /\ submitted[1].node = submitted[2].node
    /\ submitted[3].node = submitted[4].node
    /\ submitted[2].node # submitted[3].node
    /\ submitted[2].batch = 1
    /\ submitted[4].batch = 1

----------------------------------------------------------------------------
(* C15 *)

\* C15 -- loadedIdentifiers(model) is exact and per model: on the log a
\* run finds (a valid array), _log_retrieve_loaded_indices returns for each
\* model of the environment the candidates of the entries of that model in
\* state success and no other identifier; the first dataset of the run, to
\* which the result is applied, enters the graph without these rows.
C15_LoadedIdentifiersExact ==
    JsonValid(out0) =>
        /\ \A m \in DOMAIN ENV :
              Range(LogRetrieveLoadedIndices(out0, m)) = SuccessCandidates(out0, m)
        /\ (pc \in {"file", "stream", "load_metadata"} /\ GRAPH.nodes # << >>) =>
              RowIds(GRAPH.nodes[1].df.rows)
                  \cap SuccessCandidates(out0, GRAPH.nodes[1].model) = {}

\* The log holds a as loaded for the countries and as failed for the
\* states, c as loaded for the states: of the states a, c the rerun keeps a.
C15_Witness ==
    /\ pc = "load_metadata"
    /\ rerun
    /\ file = <<fState, fCountry>>
    /\ JsonValid(out0)
    /\ SuccessCandidates(out0, "res.country.state") = {"c"}
    /\ "a" \in SuccessCandidates(out0, "res.country")
    /\ "a" \in Candidates_(Entries(out0, "res.country.state", "failure"))
    /\ Candidates(GRAPH.nodes[1].df.rows) = <<"a">>

----------------------------------------------------------------------------
(* C16 *)

\* The parent references of the rows form a cycle.
RowsCyclic(rows) ==
    \E i \in DOMAIN rows :
        rows[i].id \in ReachFrom({rows[i].parent} \ {NULL}, RecordEdges(rows))

\* C16 -- Mixed conventions skip ordering silently: a turn of
\* order_to_parent at a dataset none of whose columns is the parent field
\* with the subfield of the index (no parent column, id against .id, or no
\* subfield) leaves the graph, the rows and their order as they are and
\* goes on to the next dataset, no error raised, whatever the rows'
\* parent references are.
C16_MixedConventionsSkip ==
    [][(/\ pc = "order_to_parent"
        /\ fi <= Len(GRAPH.nodes)
        /\ \A i \in DOMAIN GRAPH.nodes[fi].cols :
              GRAPH.nodes[fi].cols[i].name = GRAPH.nodes[fi].parent
                  => GRAPH.nodes[fi].cols[i].subfield # GRAPH.nodes[fi].df.idx)
       => /\ GRAPH' = GRAPH
          /\ pc' = "order_to_parent"
          /\ fi' = fi + 1
          /\ error' = ""]_vars

\* The index is .id, the parent column parent_id/id, a is the parent of b
\* and b of a: the run completes, the rows submitted as they were given.
C16_Witness ==
    /\ pc = "done"
    /\ file = <<File("product.category", "csv", dfCategoryMixed)>>
    /\ RowsCyclic(dfCategoryMixed.rows)
    /\ ordered = {}
    /\ Len(submitted) = 1
    /\ submitted[1].candidates = Candidates(dfCategoryMixed.rows)

----------------------------------------------------------------------------
(* C17 *)

\* By the environment's metadata: the frame has a column for a relational
\* field of its model, other than the model's parent field, that
\* references model m.
Qualifying(data, m) ==
    \E i \in DOMAIN data.df.columns :
        \E k \in DOMAIN ENV[data.model].relational :
            /\ ENV[data.model].relational[k].name = data.df.columns[i][1]
            /\ ENV[data.model].relational[k].model = m
            /\ data.df.columns[i][1] # ENV[data.model].parent

\* C17 -- Edge rule: after seed_edges, for any two distinct datasets A and
\* B of the run the reference graph has the edge A -> B exactly when A's
\* frame has a relational column, not A's parent column, that references
\* B's model; every edge joins two datasets of the run, so a column that
\* references a model without dataset gives none, and a pair of datasets
\* is one edge however many columns qualify.
C17_EdgeRule ==
    pc = "order_to_parent" =>
        /\ \A u \in Nodes(GRAPH) : \A v \in Nodes(GRAPH) \ {u} :
              <<u, v>> \in GRAPH.edges
                  <=> Qualifying(GRAPH.nodes[u], GRAPH.nodes[v].model)
        /\ GRAPH.edges \subseteq Nodes(GRAPH) \X Nodes(GRAPH)

\* The orders have two columns that reference the partners, the partners
\* one that references the companies, of which the run has no dataset: the
\* graph is the one edge from the orders to the partners.
C17_Witness ==
    /\ pc = "order_to_parent"
    /\ Len(GRAPH.nodes) = 2
    /\ GRAPH.nodes[1].model = "sale.order"
    /\ Cardinality({i \in DOMAIN GRAPH.nodes[1].cols :
                        GRAPH.nodes[1].cols[i].model = "res.partner"}) = 2
    /\ \E i \in DOMAIN GRAPH.nodes[2].cols :
          GRAPH.nodes[2].cols[i].model = "res.company"
    /\ GRAPH.edges = {<<1, 2>>}

----------------------------------------------------------------------------
(* C18 *)

\* C18 -- Outcome classification: what load() hands on for a batch is
\* failure exactly when the store's answer holds no written id; every
\* entry of the log has state failure or success, and success exactly when
\* its list of assigned identifiers is not empty.
C18_OutcomeClassification ==
    /\ res # NoRes => /\ res.state \in {"failure", "success"}
                      /\ res.state = "failure" <=> res.ids = << >>
    /\ \A i \in DOMAIN out :
          out[i].tok = "{" =>
              /\ out[i].state \in {"failure", "success"}
              /\ out[i].state = "success" <=> out[i].loaded # << >>

\* The log of a completed run holds an entry of each state.
C18_Witness ==
    /\ pc = "done"
    /\ AnyEntries(out, "failure") # {}
    /\ AnyEntries(out, "success") # {}
    /\ \E e \in AnyEntries(out, "failure") : e.x_msgs # << >>

----------------------------------------------------------------------------
(* C19 *)

\* The errors a run raises over what it was given, before execution: the
\* configuration errors, and the failures on a frame without index column
\* and on a parent column not spelled with "/".
InputErrors == {"BadParameter", "UsageError", "UnboundLocalError", "KeyError"}

\* The reference graph, edges between distinct datasets only, has a cycle.
HasProperCycle(g) ==
    HasCycle([g EXCEPT !.edges = {e \in g.edges : e[1] # e[2]}])

\* The run was aborted over its input: by an input error, by a cycle among
\* a dataset's rows, or by a cycle among the datasets.
AbortedOverInput ==
    /\ pc = "aborted"
    /\ \/ error \in InputErrors
       \/ error = RowCycle
       \/ error = DatasetCycle /\ HasProperCycle(GRAPH)

\* The run completed: every batch of every dataset submitted, the closing
\* sentinel written, main() returned.
Completed ==
    /\ pc = "done"
    /\ \A n \in Nodes(GRAPH) : SubmittedKeys(n) = ChunkKeys(n)
    /\ Len(written) = Len(submitted)
    /\ out # << >> /\ Last(out) = SentinelTok

\* Every run that is started ends, completed or aborted.
Terminates ==
    \A r \in 1..MaxRuns : (runs = r /\ ~Ended) ~> (runs = r /\ Ended)

\* C19 -- Run completion: every run that is started ends, and it ends
\* either completed (every batch of every dataset submitted whatever the
\* store answered, then the sentinel written) or aborted over its input:
\* by an error the input raises before execution or by a cycle among the
\* datasets or among a dataset's rows.
C19_RunCompletion ==
    \A r \in 1..MaxRuns :
        (runs = r /\ ~Ended) ~> (runs = r /\ (Completed \/ AbortedOverInput))

====
